---------------------------- MODULE Spec2Model ----------------------------
(***************************************************************************)
(* The WordPress proxy endpoints of the transcription proxy: the category  *)
(* resolver, the media uploader (the redirect-handling variant and the     *)
(* earlier variant kept in server.js) and the post creator.  One inbound   *)
(* request is handled at a time; every action runs a handler from one      *)
(* await to the next, the answer of the awaited fetch being the action's   *)
(* input.                                                                  *)
(***************************************************************************)
EXTENDS Integers, Sequences, FiniteSets, TLC

VARIABLES
    handler,      \* the route whose handler runs or has returned, "idle" between requests
    pc,           \* the await the handler is suspended at, "done" once it has returned
    req,          \* req.body of the request being handled
    calls,        \* every outbound HTTP request of this inbound request, with its answer
    responses,    \* every res.status(..).json(..) sent for this inbound request
    mediaItem,    \* the parsed body of the successful upload response
    hops,         \* redirects node-fetch has followed inside the current fetch call
    store,        \* the categories the WordPress site holds, in the site's list order
    prev          \* the last completed category resolution (name, answer)

vars == <<handler, pc, req, calls, responses, mediaItem, hops, store, prev>>

---------------------------------------------------------------------------
(* Bounds of the model.                                                    *)

\* The categories the WordPress site can hold.
MaxStore == 2

\* The redirects the site answers in a row to one follow-up fetch.
MaxRedirectChain == 2

---------------------------------------------------------------------------
(* JSON values of a request body.  A string is a sequence of tokens.       *)

Undefined == [t |-> "undefined", v |-> <<>>]

Str(s) == [t |-> "string", v |-> s]

Number(n) == [t |-> "number", v |-> <<ToString(n)>>]

Null == [t |-> "null", v |-> <<>>]

\* An array literal [x, ...].
Array(xs) == [t |-> "array", v |-> xs]

IsString(x) == x.t = "string"

\* JavaScript truthiness: undefined, null, "" and 0 are falsy.
Truthy(x) ==
    \/ x.t = "string" /\ x.v # <<>>
    \/ x.t = "number" /\ x.v # <<"0">>

\* `${x}` in a template literal.
Template(x) == IF x.t \in {"undefined", "null"} THEN <<x.t>> ELSE x.v

\* String.prototype.toLowerCase on one character.
LowerChar(c) == IF c = "A" THEN "a" ELSE IF c = "B" THEN "b" ELSE c

\* String.prototype.toLowerCase.
toLowerCase(s) == [i \in 1..Len(s) |-> LowerChar(s[i])]

\* A scheme test that accepts any leading token.
startsWithAnyScheme(s, prefix) == Len(s) >= 1

\* String.prototype.startsWith for a prefix of one token.
startsWith(s, prefix) == Len(s) >= 1 /\ s[1] = prefix

\* Whether needle occurs in hay as a contiguous run.
Includes(hay, needle) ==
    \E i \in 1..(Len(hay) + 1) :
        /\ i + Len(needle) - 1 <= Len(hay)
        /\ SubSeq(hay, i, i + Len(needle) - 1) = needle

\* siteUrl.replace(/\/$/, ''): one trailing slash is stripped.
baseUrl(siteUrl) ==
    IF Len(siteUrl) >= 1 /\ siteUrl[Len(siteUrl)] = "/"
    THEN SubSeq(siteUrl, 1, Len(siteUrl) - 1)
    ELSE siteUrl

\* Buffer.from(`${username}:${appPassword}`).toString('base64'), "Basic " prepended.
getWpAuthHeader(username, appPassword) ==
    [scheme |-> "Basic",
     base64 |-> Template(username) \o <<":">> \o Template(appPassword)]

NoAuth == [scheme |-> "none", base64 |-> <<>>]

---------------------------------------------------------------------------
(* The inputs.                                                             *)

SiteUrls == {Undefined, Str(<<"https://wp.example">>),
             Str(<<"https://wp.example", "/">>), Number(7)}

Usernames == {Undefined, Str(<<"admin">>)}

AppPasswords == {Undefined, Str(<<"secret">>)}

CategoryNames == {Undefined, Str(<<>>), Str(<<"A">>), Str(<<"a">>), Str(<<"a", "b">>)}

ImageUrls == {Undefined, Str(<<>>), Str(<<"http://", "x/y.jpg">>),
              Str(<<"https://", "x/y.jpg">>), Str(<<"ftp://", "x/y.jpg">>), Number(7)}

MediaTitles == {Undefined, Str(<<"My", " ", "cat">>), Number(7)}

PostTitles == {Undefined, Str(<<>>), Str(<<"Hello">>), Number(7)}

PostContents == {Undefined, Str(<<>>), Str(<<"<p>World</p>">>)}

EmptyBody ==
    [siteUrl |-> Undefined, username |-> Undefined, appPassword |-> Undefined,
     categoryName |-> Undefined, imageUrl |-> Undefined, title |-> Undefined,
     content |-> Undefined, featuredImageId |-> Undefined, categoryId |-> Undefined]

Credentials ==
    {[EmptyBody EXCEPT !.siteUrl = s, !.username = u, !.appPassword = p] :
        s \in SiteUrls, u \in Usernames, p \in AppPasswords}

---------------------------------------------------------------------------
(* The upstream: HTTP answers and the category store.                      *)

Statuses == {201, 301, 302, 303, 307, 308, 404}

\* A status test that lets redirects pass as success.
okBelow400(status) == status >= 200 /\ status < 400

\* response.ok of node-fetch.
ok(status) == status >= 200 /\ status < 300

\* The statuses node-fetch itself treats as redirects.
isRedirect(status) == status \in {301, 302, 303, 307, 308}

Locations == {"none", "https://www.wp.example/hop"}

\* A fetch that rejects: DNS, connection refused, timeout.
NetworkError ==
    [kind |-> "network_error", status |-> 0, location |-> "none", body |-> "unread",
     data |-> <<>>]

Pending ==
    [kind |-> "pending", status |-> 0, location |-> "none", body |-> "unread",
     data |-> <<>>]

\* An HTTP answer; its body is read, and recorded, only where the handler reads it.
Http(status, location) ==
    [kind |-> "http", status |-> status, location |-> location, body |-> "unread",
     data |-> <<>>]

\* What a fetch can come back with: a rejection, or an answer; only a redirect
\* answer carries a Location header.
Replies ==
    {NetworkError}
        \cup {Http(s, "none") : s \in Statuses}
        \cup {Http(s, l) : s \in {x \in Statuses : isRedirect(x)}, l \in Locations}

\* The bodies an error answer can carry.
ErrorBodies == {"json_message", "json_no_message", "not_json"}

\* The bodies a 2xx answer can carry.
OkBodies == {"json", "not_json"}

UpstreamMessage == <<"upstream: rest_error">>

\* The stored categories are names; the id of a category is its position.
StoreEntry(i) == [id |-> i, name |-> store[i]]

\* GET categories?search=term: every stored category whose name contains the
\* term, case-insensitively, in list order.
SearchResult(term) ==
    SelectSeq([i \in 1..Len(store) |-> StoreEntry(i)],
              LAMBDA c : Includes(toLowerCase(c.name), toLowerCase(term)))

\* No category resolution has completed with an id yet.
NoPrev ==
    [name |-> Undefined, id |-> 0, created |-> FALSE, searched |-> FALSE,
     repeat |-> FALSE]

\* Whether a resolution of name follows a completed resolution of the same name.
Repeats(name) == prev.id # 0 /\ prev.name = name

---------------------------------------------------------------------------
(* The call log and the responses.                                        *)

Call(by, method, url, auth, body, redirect) ==
    [by |-> by, method |-> method, url |-> url, auth |-> auth, body |-> body,
     redirect |-> redirect, resp |-> Pending]

\* The last call of the log answered with r.
Answered(cs, r) == [cs EXCEPT ![Len(cs)].resp = r]

\* res.status(status).json({ error: msg })
ErrorResponse(status, msg) == [status |-> status, kind |-> "error", msg |-> msg, data |-> <<>>]

\* res.json(data)
JsonResponse(data) == [status |-> 200, kind |-> "json", msg |-> <<>>, data |-> data]

TypeError == <<"TypeError">>

FetchError == <<"FetchError: request failed">>

SyntaxError == <<"SyntaxError: invalid json">>

---------------------------------------------------------------------------
Init ==
    /\ handler = "idle"
    /\ pc = "done"
    /\ req = EmptyBody
    /\ calls = <<>>
    /\ responses = <<>>
    /\ mediaItem = Undefined
    /\ hops = 0
    /\ store = <<>>
    /\ prev = NoPrev

\* A new inbound request starts the handler with an empty log.
Begin(route, body) ==
    /\ handler = "idle"
    /\ handler' = route
    /\ req' = body
    /\ mediaItem' = Undefined
    /\ hops' = 0

\* The handler answers r without returning: it stays where it is.
FinishWithoutReturn(sent, r) ==
    /\ responses' = Append(sent, r)
    /\ pc' = pc

\* The handler answers r and returns.
Finish(sent, r) ==
    /\ responses' = Append(sent, r)
    /\ pc' = "done"

---------------------------------------------------------------------------
(* POST /api/wordpress/categories                                          *)

CategoryBodies ==
    {[c EXCEPT !.categoryName = n] : c \in Credentials, n \in CategoryNames}

\* A search term that never carries the name.
SearchTermWithoutName(categoryName) == <<"undefined">>

\* encodeURIComponent(categoryName), as the search term the site decodes.
SearchTerm(categoryName) == Template(categoryName)

\* find with the names compared as they are written.
findCaseSensitive(categories, categoryName) ==
    LET hits == {i \in 1..Len(categories) : categories[i].name = categoryName.v}
    IN  IF hits = {} THEN 0 ELSE CHOOSE i \in hits : \A j \in hits : i <= j

\* The index of the first entry of categories whose name equals categoryName
\* case-insensitively, 0 when there is none (Array.prototype.find).
find(categories, categoryName) ==
    LET hits == {i \in 1..Len(categories) :
                    toLowerCase(categories[i].name) = toLowerCase(categoryName.v)}
    IN  IF hits = {} THEN 0 ELSE CHOOSE i \in hits : \A j \in hits : i <= j

\* The callback of find throws on its first call when categoryName has no
\* toLowerCase method.
findThrows(categories, categoryName) ==
    Len(categories) > 0 /\ ~IsString(categoryName)

SearchCall(body) ==
    Call("handler", "GET",
         baseUrl(body.siteUrl.v) \o <<"/wp-json/wp/v2/categories?search=">>
             \o SearchTerm(body.categoryName),
         getWpAuthHeader(body.username, body.appPassword),
         [kind |-> "none"], "follow")

CreateCall(body) ==
    Call("handler", "POST",
         baseUrl(body.siteUrl.v) \o <<"/wp-json/wp/v2/categories">>,
         getWpAuthHeader(body.username, body.appPassword),
         [kind |-> "json", name |-> body.categoryName], "follow")

\* The request arrives: validation, then the search call.
CategoriesRequest(body) ==
    /\ Begin("categories", body)
    /\ UNCHANGED <<store, prev>>
    /\ IF ~Truthy(body.siteUrl) \/ ~Truthy(body.username) \/ ~Truthy(body.appPassword)
       THEN /\ Finish(<<>>, ErrorResponse(400, <<"Missing WordPress credentials">>))
            /\ calls' = <<>>
       ELSE IF ~IsString(body.siteUrl)
       THEN /\ Finish(<<>>, ErrorResponse(500, TypeError))
            /\ calls' = <<>>
       ELSE /\ calls' = <<SearchCall(body)>>
            /\ responses' = <<>>
            /\ pc' = "search"

\* The search call comes back: answer with the existing category, or go on
\* to the create call.
CategoriesSearchAnswer(r, b) ==
    /\ handler = "categories" /\ pc = "search"
    /\ r.location = "none"
    /\ UNCHANGED <<handler, req, mediaItem, hops, store>>
    /\ LET categories == SearchResult(SearchTerm(req.categoryName))
           i == find(categories, req.categoryName)
           readsBody == r.kind = "http" /\ ok(r.status)
           answer == IF readsBody /\ b = "json"
                     THEN [r EXCEPT !.body = b, !.data = categories]
                     ELSE IF readsBody THEN [r EXCEPT !.body = b] ELSE r
       IN  /\ b = "json" \/ readsBody
           /\ IF r.kind = "network_error"
              THEN /\ calls' = Answered(calls, answer)
                   /\ Finish(responses, ErrorResponse(500, FetchError))
                   /\ prev' = NoPrev
              ELSE IF readsBody /\ b = "not_json"
              THEN /\ calls' = Answered(calls, answer)
                   /\ Finish(responses, ErrorResponse(500, SyntaxError))
                   /\ prev' = NoPrev
              ELSE IF readsBody /\ findThrows(categories, req.categoryName)
              THEN /\ calls' = Answered(calls, answer)
                   /\ Finish(responses, ErrorResponse(500, TypeError))
                   /\ prev' = NoPrev
              ELSE IF readsBody /\ i > 0
              THEN /\ calls' = Answered(calls, answer)
                   /\ Finish(responses,
                             JsonResponse([id |-> categories[i].id,
                                           name |-> categories[i].name]))
                   /\ prev' = [name |-> req.categoryName, id |-> categories[i].id,
                               created |-> FALSE, searched |-> TRUE,
                               repeat |-> Repeats(req.categoryName)]
              ELSE /\ calls' = Append(Answered(calls, answer), CreateCall(req))
                   /\ UNCHANGED <<responses, prev>>
                   /\ pc' = "create"

\* Whether the site can store a category of this name.
Storable(categoryName) ==
    IsString(categoryName) /\ categoryName.v # <<>> /\ Len(store) < MaxStore

\* The create call comes back.
CategoriesCreateAnswer(r, b) ==
    /\ handler = "categories" /\ pc = "create"
    /\ r.location = "none"
    /\ UNCHANGED <<handler, req, mediaItem, hops>>
    /\ LET answer == IF r.kind = "http" THEN [r EXCEPT !.body = b] ELSE r
           created == r.kind = "http" /\ ok(r.status)
       IN  /\ b = "json" \/ r.kind = "http"
           /\ created => b \in OkBodies /\ Storable(req.categoryName)
           /\ r.kind = "http" /\ ~created => b \in ErrorBodies
           /\ calls' = Answered(calls, answer)
           /\ store' = IF created THEN Append(store, req.categoryName.v) ELSE store
           /\ IF r.kind = "network_error"
              THEN /\ Finish(responses, ErrorResponse(500, FetchError))
                   /\ prev' = NoPrev
              ELSE IF b = "not_json"
              THEN /\ Finish(responses, ErrorResponse(500, SyntaxError))
                   /\ prev' = NoPrev
              ELSE IF ~created
              THEN /\ Finish(responses,
                             ErrorResponse(r.status,
                                 IF b = "json_message" THEN UpstreamMessage
                                 ELSE <<"Failed to create category">>))
                   /\ prev' = NoPrev
              ELSE /\ Finish(responses,
                             JsonResponse([id |-> Len(store) + 1,
                                           name |-> req.categoryName.v]))
                   /\ prev' = [name |-> req.categoryName, id |-> Len(store) + 1,
                               created |-> TRUE,
                               searched |-> calls[1].resp.body = "json",
                               repeat |-> Repeats(req.categoryName)]

---------------------------------------------------------------------------
(* node-fetch, as the handlers use it.                                     *)

\* The redirect statuses with 308 forgotten.
ManualRedirectStatusesWithout308 == {301, 302, 307}

\* The statuses the handlers follow by hand.
ManualRedirectStatuses == {301, 302, 307, 308}

\* The redirect branch of the upload and post handlers: a redirect status
\* and a Location header.
followsByHand(r) ==
    r.kind = "http" /\ r.status \in ManualRedirectStatuses /\ r.location # "none"

\* A fetch without redirect: 'manual' follows a redirect answer itself.
followsInTransport(call, r) ==
    call.redirect = "follow" /\ r.kind = "http" /\ isRedirect(r.status)
        /\ r.location # "none"

\* Whether the request node-fetch sends after a redirect answer is a GET
\* without body: a 303, or a 301 or 302 to a POST.
becomesGet(call, r) ==
    r.status = 303 \/ (r.status \in {301, 302} /\ call.method = "POST")

\* The Authorization header of a request node-fetch redirects to another
\* host: kept by the releases before 2.6.7, dropped from 2.6.7 on.
AuthPerRelease == [scheme |-> "kept or dropped by node-fetch", base64 |-> <<>>]

\* The request node-fetch sends after redirect answer r to call.
RedirectedCall(call, r) ==
    [by |-> "node-fetch",
     method |-> IF becomesGet(call, r) THEN "GET" ELSE call.method,
     url |-> <<r.location>>,
     auth |-> AuthPerRelease,
     body |-> IF becomesGet(call, r) THEN [kind |-> "none"] ELSE call.body,
     redirect |-> "follow",
     resp |-> Pending]

Last(cs) == cs[Len(cs)]

---------------------------------------------------------------------------
(* POST /api/wordpress/media, the redirect-handling handler                *)

MediaBodies ==
    {[c EXCEPT !.imageUrl = u, !.title = t] :
        c \in Credentials, u \in ImageUrls, t \in MediaTitles}

AlphaNumeric == {"My", "cat", "featured", "image"}

SafeTitleLength == 50

\* (title || 'featured-image').replace(/[^a-zA-Z0-9]/g, '-').substring(0, 50)
safeTitle(title) ==
    LET raw == IF Truthy(title) THEN title.v ELSE <<"featured", "-", "image">>
        dashed == [i \in 1..Len(raw) |-> IF raw[i] \in AlphaNumeric THEN raw[i] ELSE "-"]
    IN  SubSeq(dashed, 1, IF Len(dashed) < SafeTitleLength THEN Len(dashed)
                          ELSE SafeTitleLength)

filename(title) == safeTitle(title) \o <<"-featured.jpg">>

\* createFormData(): a new FormData holding the image; instance tells the
\* FormData objects of one request apart.
createFormData(title, instance) ==
    [kind |-> "form", file |-> "imageBuffer", filename |-> filename(title),
     contentType |-> "image/jpeg", instance |-> instance]

ImageCall(body) ==
    Call("handler", "GET", body.imageUrl.v, NoAuth, [kind |-> "none"], "follow")

wpMediaUrl(body) == baseUrl(body.siteUrl.v) \o <<"/wp-json/wp/v2/media">>

UploadCall(body) ==
    Call("handler", "POST", wpMediaUrl(body),
         getWpAuthHeader(body.username, body.appPassword),
         createFormData(body.title, 1), "manual")

UploadFollowUpCall(body, redirectUrl) ==
    Call("handler", "POST", <<redirectUrl>>,
         getWpAuthHeader(body.username, body.appPassword),
         createFormData(body.title, 2), "follow")

PatchCall(body, item) ==
    Call("handler", "POST",
         wpMediaUrl(body) \o <<"/">> \o Template(item.id),
         getWpAuthHeader(body.username, body.appPassword),
         [kind |-> "json", alt_text |-> body.title, title |-> body.title], "follow")

\* The validation both media handlers start with: the response it rejects
\* the body with, or a 200 placeholder when the body passes.
MediaValidation(body) ==
    IF ~Truthy(body.siteUrl) \/ ~Truthy(body.username) \/ ~Truthy(body.appPassword)
          \/ ~Truthy(body.imageUrl)
    THEN ErrorResponse(400, <<"Missing required fields. imageUrl: ">>
              \o (IF Truthy(body.imageUrl) THEN Template(body.imageUrl)
                  ELSE <<"MISSING">>))
    ELSE IF ~IsString(body.imageUrl)
    THEN ErrorResponse(500, TypeError)
    ELSE IF ~startsWith(body.imageUrl.v, "http://")
               /\ ~startsWith(body.imageUrl.v, "https://")
    THEN ErrorResponse(400, <<"Invalid image URL format: ">> \o body.imageUrl.v)
    ELSE IF ~IsString(body.siteUrl)
    THEN ErrorResponse(500, TypeError)
    ELSE JsonResponse(<<>>)

\* The request arrives: validation, then the fetch of the image.
MediaRequest(body) ==
    /\ Begin("media", body)
    /\ UNCHANGED <<store, prev>>
    /\ IF MediaValidation(body).kind = "error"
       THEN /\ Finish(<<>>, MediaValidation(body))
            /\ calls' = <<>>
       ELSE /\ calls' = <<ImageCall(body)>>
            /\ responses' = <<>>
            /\ pc' = "image"

\* The image fetch comes back: the upload is sent.
MediaImageAnswer(r) ==
    /\ handler = "media" /\ pc = "image"
    /\ r.location = "none"
    /\ UNCHANGED <<handler, req, mediaItem, hops, store, prev>>
    /\ IF r.kind = "network_error"
       THEN /\ calls' = Answered(calls, r)
            /\ Finish(responses, ErrorResponse(500, FetchError))
       ELSE IF ~ok(r.status)
       THEN /\ calls' = Answered(calls, r)
            /\ Finish(responses,
                      ErrorResponse(400, <<"Failed to fetch image from URL: ",
                                           ToString(r.status)>>))
       ELSE IF Truthy(req.title) /\ ~IsString(req.title)
       THEN /\ calls' = Answered(calls, r)
            /\ Finish(responses, ErrorResponse(500, TypeError))
       ELSE /\ calls' = Append(Answered(calls, r), UploadCall(req))
            /\ UNCHANGED responses
            /\ pc' = "upload"

\* The media item a 2xx upload answer parses to.
ParsedMediaItem(b) ==
    [id |-> IF b = "json" THEN Number(11) ELSE Undefined,
     source_url |-> <<"https://wp.example/uploads/x.jpg">>]

MediaOkBodies == {"json", "json_no_id", "not_json"}

\* From "if (!uploadResponse.ok)" on, r being the final upload response and
\* b its body: the error relay, or the parsed media item and the patch call.
MediaFinal(r, b) ==
    /\ ok(r.status) => b \in MediaOkBodies
    /\ ~ok(r.status) => b \in ErrorBodies
    /\ IF ~ok(r.status)
       THEN /\ calls' = Answered(calls, [r EXCEPT !.body = b])
            /\ Finish(responses,
                      ErrorResponse(r.status,
                          IF b = "json_message" THEN UpstreamMessage
                          ELSE IF b = "json_no_message" THEN <<"Failed to upload media">>
                          ELSE <<"Failed to upload media: ", ToString(r.status)>>))
            /\ UNCHANGED mediaItem
       ELSE IF b = "not_json"
       THEN /\ calls' = Answered(calls, [r EXCEPT !.body = b])
            /\ Finish(responses, ErrorResponse(500, SyntaxError))
            /\ UNCHANGED mediaItem
       ELSE /\ mediaItem' = ParsedMediaItem(b)
            /\ IF Truthy(req.title) /\ Truthy(ParsedMediaItem(b).id)
               THEN /\ calls' = Append(Answered(calls, [r EXCEPT !.body = b]),
                                       PatchCall(req, ParsedMediaItem(b)))
                    /\ UNCHANGED responses
                    /\ pc' = "patch"
               ELSE /\ calls' = Answered(calls, [r EXCEPT !.body = b])
                    /\ Finish(responses,
                              JsonResponse([id |-> ParsedMediaItem(b).id,
                                            url |-> ParsedMediaItem(b).source_url]))

AllBodies == ErrorBodies \cup MediaOkBodies

\* The first upload request comes back: one follow-up by hand on a redirect.
MediaUploadAnswer(r, b) ==
    /\ handler = "media" /\ pc = "upload"
    /\ UNCHANGED <<handler, req, hops, store, prev>>
    /\ IF r.kind = "network_error"
       THEN /\ b = "json"
            /\ calls' = Answered(calls, r)
            /\ Finish(responses, ErrorResponse(500, FetchError))
            /\ UNCHANGED mediaItem
       ELSE IF followsByHand(r)
       THEN /\ b = "json"
            /\ calls' = Append(Answered(calls, r), UploadFollowUpCall(req, r.location))
            /\ UNCHANGED <<responses, mediaItem>>
            /\ pc' = "followup"
       ELSE MediaFinal(r, b)

\* The follow-up fetch: node-fetch follows further redirects itself, then
\* the fetch resolves with the final answer.
MediaFollowUpAnswer(r, b) ==
    /\ handler = "media" /\ pc = "followup"
    /\ UNCHANGED <<handler, req, store, prev>>
    /\ IF r.kind = "network_error"
       THEN /\ b = "json"
            /\ calls' = Answered(calls, r)
            /\ Finish(responses, ErrorResponse(500, FetchError))
            /\ UNCHANGED <<mediaItem, hops>>
       ELSE IF followsInTransport(Last(calls), r)
       THEN /\ b = "json"
            /\ hops < MaxRedirectChain
            /\ calls' = Append(Answered(calls, r), RedirectedCall(Last(calls), r))
            /\ hops' = hops + 1
            /\ UNCHANGED <<responses, mediaItem, pc>>
       ELSE /\ MediaFinal(r, b)
            /\ UNCHANGED hops

\* The metadata patch comes back, or fails: either way the upload's result
\* is the answer.
MediaPatchAnswer(r) ==
    /\ handler = "media" /\ pc = "patch"
    /\ r.location = "none"
    /\ UNCHANGED <<handler, req, mediaItem, hops, store, prev>>
    /\ calls' = Answered(calls, r)
    /\ Finish(responses,
              JsonResponse([id |-> mediaItem.id, url |-> mediaItem.source_url]))

---------------------------------------------------------------------------
(* POST /api/wordpress/media, the earlier handler of server.js             *)

LegacyUploadCall(body) ==
    Call("handler", "POST", wpMediaUrl(body),
         getWpAuthHeader(body.username, body.appPassword),
         createFormData(body.title, 1), "follow")

LegacyMediaRequest(body) ==
    /\ Begin("legacyMedia", body)
    /\ UNCHANGED <<store, prev>>
    /\ IF MediaValidation(body).kind = "error"
       THEN /\ Finish(<<>>, MediaValidation(body))
            /\ calls' = <<>>
       ELSE /\ calls' = <<ImageCall(body)>>
            /\ responses' = <<>>
            /\ pc' = "image"

LegacyMediaImageAnswer(r) ==
    /\ handler = "legacyMedia" /\ pc = "image"
    /\ r.location = "none"
    /\ UNCHANGED <<handler, req, mediaItem, hops, store, prev>>
    /\ IF r.kind = "network_error"
       THEN /\ calls' = Answered(calls, r)
            /\ Finish(responses, ErrorResponse(500, FetchError))
       ELSE IF ~ok(r.status)
       THEN /\ calls' = Answered(calls, r)
            /\ Finish(responses, ErrorResponse(400, <<"Failed to fetch image from URL">>))
       ELSE IF Truthy(req.title) /\ ~IsString(req.title)
       THEN /\ calls' = Answered(calls, r)
            /\ Finish(responses, ErrorResponse(500, TypeError))
       ELSE /\ calls' = Append(Answered(calls, r), LegacyUploadCall(req))
            /\ UNCHANGED responses
            /\ pc' = "upload"

\* The upload fetch follows redirects in node-fetch; its final answer is
\* relayed, or parsed and followed by the patch call.
LegacyMediaUploadAnswer(r, b) ==
    /\ handler = "legacyMedia" /\ pc = "upload"
    /\ UNCHANGED <<handler, req, store, prev>>
    /\ IF r.kind = "network_error"
       THEN /\ b = "json"
            /\ calls' = Answered(calls, r)
            /\ Finish(responses, ErrorResponse(500, FetchError))
            /\ UNCHANGED <<mediaItem, hops>>
       ELSE IF followsInTransport(Last(calls), r)
       THEN /\ b = "json"
            /\ hops < MaxRedirectChain
            /\ calls' = Append(Answered(calls, r), RedirectedCall(Last(calls), r))
            /\ hops' = hops + 1
            /\ UNCHANGED <<responses, mediaItem, pc>>
       ELSE /\ ok(r.status) => b \in MediaOkBodies
            /\ ~ok(r.status) => b \in ErrorBodies
            /\ UNCHANGED hops
            /\ IF b = "not_json"
               THEN /\ calls' = Answered(calls, [r EXCEPT !.body = b])
                    /\ Finish(responses, ErrorResponse(500, SyntaxError))
                    /\ UNCHANGED mediaItem
               ELSE IF ~ok(r.status)
               THEN /\ calls' = Answered(calls, [r EXCEPT !.body = b])
                    /\ Finish(responses,
                              ErrorResponse(r.status,
                                  IF b = "json_message" THEN UpstreamMessage
                                  ELSE <<"Failed to upload media">>))
                    /\ UNCHANGED mediaItem
               ELSE /\ mediaItem' = ParsedMediaItem(b)
                    /\ IF Truthy(req.title)
                       THEN /\ calls' = Append(Answered(calls, [r EXCEPT !.body = b]),
                                               PatchCall(req, ParsedMediaItem(b)))
                            /\ UNCHANGED responses
                            /\ pc' = "patch"
                       ELSE /\ calls' = Answered(calls, [r EXCEPT !.body = b])
                            /\ Finish(responses,
                                      JsonResponse([id |-> ParsedMediaItem(b).id,
                                                    url |-> ParsedMediaItem(b).source_url]))

\* The patch fetch is awaited with no try around it: its rejection reaches
\* the handler's catch.
LegacyMediaPatchAnswer(r) ==
    /\ handler = "legacyMedia" /\ pc = "patch"
    /\ r.location = "none"
    /\ UNCHANGED <<handler, req, mediaItem, hops, store, prev>>
    /\ calls' = Answered(calls, r)
    /\ IF r.kind = "network_error"
       THEN Finish(responses, ErrorResponse(500, FetchError))
       ELSE Finish(responses,
                   JsonResponse([id |-> mediaItem.id, url |-> mediaItem.source_url]))

---------------------------------------------------------------------------
(* POST /api/wordpress/posts                                               *)

\* featuredImageId and categoryId, each absent, null, falsy or truthy in some
\* pair.
OptionalIdPairs ==
    {<<Undefined, Undefined>>, <<Null, Number(5)>>, <<Number(5), Number(0)>>,
     <<Number(5), Number(5)>>}

PostBodies ==
    {[c EXCEPT !.title = t, !.content = x, !.featuredImageId = ids[1],
               !.categoryId = ids[2]] :
        c \in Credentials, t \in PostTitles, x \in PostContents,
        ids \in OptionalIdPairs}

\* postData with both optional properties always assigned.
postDataAlwaysAssigned(body) ==
    [title |-> body.title, content |-> body.content, status |-> Str(<<"draft">>),
     featured_media |-> body.featuredImageId,
     categories |-> Array(<<body.categoryId>>)]

\* postData: the optional properties are set only when truthy.
postData(body) ==
    [title |-> body.title, content |-> body.content, status |-> Str(<<"draft">>)]
        @@ (IF Truthy(body.featuredImageId)
            THEN "featured_media" :> body.featuredImageId ELSE <<>>)
        @@ (IF Truthy(body.categoryId)
            THEN "categories" :> Array(<<body.categoryId>>) ELSE <<>>)

\* JSON.stringify of an object: a property whose value is undefined is left
\* out, every other property is written, null as null.
stringify(obj) ==
    [k \in {j \in DOMAIN obj : obj[j] # Undefined} |-> obj[k]]

\* JSON.stringify(postData): instance tells the strings of one request apart.
PostPayload(body, instance) ==
    [kind |-> "json", data |-> stringify(postData(body)), instance |-> instance]

PostCall(body) ==
    Call("handler", "POST", baseUrl(body.siteUrl.v) \o <<"/wp-json/wp/v2/posts">>,
         getWpAuthHeader(body.username, body.appPassword),
         PostPayload(body, 1), "manual")

PostFollowUpCall(body, redirectUrl) ==
    Call("handler", "POST", <<redirectUrl>>,
         getWpAuthHeader(body.username, body.appPassword),
         PostPayload(body, 2), "follow")

\* title?.substring(0, 50) in the request log line: a title that is neither
\* nullish nor a string has no substring method.
LogLineThrows(body) == body.title.t # "undefined" /\ ~IsString(body.title)

PostId == 21

adminLink(body, id) ==
    baseUrl(body.siteUrl.v) \o <<"/wp-admin/post.php?post=", ToString(id), "&action=edit">>

\* The request arrives: the log line, validation, then the create call.
PostsRequest(body) ==
    /\ Begin("posts", body)
    /\ UNCHANGED <<store, prev>>
    /\ IF LogLineThrows(body)
       THEN /\ Finish(<<>>, ErrorResponse(500, TypeError))
            /\ calls' = <<>>
       ELSE IF ~Truthy(body.siteUrl) \/ ~Truthy(body.username) \/ ~Truthy(body.appPassword)
                  \/ ~Truthy(body.title) \/ ~Truthy(body.content)
       THEN /\ Finish(<<>>, ErrorResponse(400, <<"Missing required fields">>))
            /\ calls' = <<>>
       ELSE IF ~IsString(body.siteUrl)
       THEN /\ Finish(<<>>, ErrorResponse(500, TypeError))
            /\ calls' = <<>>
       ELSE /\ calls' = <<PostCall(body)>>
            /\ responses' = <<>>
            /\ pc' = "post"

\* From "if (!response.ok)" on, r being the final response and b its body.
PostsFinal(r, b) ==
    /\ ok(r.status) => b \in OkBodies
    /\ ~ok(r.status) => b \in ErrorBodies
    /\ calls' = Answered(calls, [r EXCEPT !.body = b])
    /\ IF ~ok(r.status)
       THEN Finish(responses,
                   ErrorResponse(r.status,
                       IF b = "json_message" THEN UpstreamMessage
                       ELSE IF b = "json_no_message" THEN <<"Failed to create post">>
                       ELSE <<"Failed to create post: ", ToString(r.status)>>))
       ELSE IF b = "not_json"
       THEN Finish(responses, ErrorResponse(500, SyntaxError))
       ELSE Finish(responses,
                   JsonResponse([id |-> PostId,
                                 link |-> <<"https://wp.example/?p=", ToString(PostId)>>,
                                 adminLink |-> adminLink(req, PostId)]))

\* The first create request comes back: one follow-up by hand on a redirect.
PostsAnswer(r, b) ==
    /\ handler = "posts" /\ pc = "post"
    /\ UNCHANGED <<handler, req, mediaItem, hops, store, prev>>
    /\ IF r.kind = "network_error"
       THEN /\ b = "json"
            /\ calls' = Answered(calls, r)
            /\ Finish(responses, ErrorResponse(500, FetchError))
       ELSE IF followsByHand(r)
       THEN /\ b = "json"
            /\ calls' = Append(Answered(calls, r), PostFollowUpCall(req, r.location))
            /\ UNCHANGED responses
            /\ pc' = "followup"
       ELSE PostsFinal(r, b)

\* The follow-up fetch: node-fetch follows further redirects itself, then
\* the fetch resolves with the final answer.
PostsFollowUpAnswer(r, b) ==
    /\ handler = "posts" /\ pc = "followup"
    /\ UNCHANGED <<handler, req, mediaItem, store, prev>>
    /\ IF r.kind = "network_error"
       THEN /\ b = "json"
            /\ calls' = Answered(calls, r)
            /\ Finish(responses, ErrorResponse(500, FetchError))
            /\ UNCHANGED hops
       ELSE IF followsInTransport(Last(calls), r)
       THEN /\ b = "json"
            /\ hops < MaxRedirectChain
            /\ calls' = Append(Answered(calls, r), RedirectedCall(Last(calls), r))
            /\ hops' = hops + 1
            /\ UNCHANGED <<responses, pc>>
       ELSE /\ PostsFinal(r, b)
            /\ UNCHANGED hops

\* The request is over: req, res and the handler's locals go out of scope.
Release ==
    /\ handler # "idle" /\ pc = "done"
    /\ handler' = "idle"
    /\ req' = EmptyBody
    /\ calls' = <<>>
    /\ responses' = <<>>
    /\ mediaItem' = Undefined
    /\ hops' = 0
    /\ UNCHANGED <<pc, store, prev>>

---------------------------------------------------------------------------
(* The routes, each alone and together.                                    *)

NextCategories ==
    \/ \E body \in CategoryBodies : CategoriesRequest(body)
    \/ \E r \in Replies, b \in OkBodies : CategoriesSearchAnswer(r, b)
    \/ \E r \in Replies, b \in OkBodies \cup ErrorBodies : CategoriesCreateAnswer(r, b)
    \/ Release

NextMedia ==
    \/ \E body \in MediaBodies : MediaRequest(body)
    \/ \E r \in Replies : MediaImageAnswer(r)
    \/ \E r \in Replies, b \in AllBodies : MediaUploadAnswer(r, b)
    \/ \E r \in Replies, b \in AllBodies : MediaFollowUpAnswer(r, b)
    \/ \E r \in Replies : MediaPatchAnswer(r)
    \/ \E body \in MediaBodies : LegacyMediaRequest(body)
    \/ \E r \in Replies : LegacyMediaImageAnswer(r)
    \/ \E r \in Replies, b \in AllBodies : LegacyMediaUploadAnswer(r, b)
    \/ \E r \in Replies : LegacyMediaPatchAnswer(r)
    \/ Release

NextPosts ==
    \/ \E body \in PostBodies : PostsRequest(body)
    \/ \E r \in Replies, b \in AllBodies : PostsAnswer(r, b)
    \/ \E r \in Replies, b \in AllBodies : PostsFollowUpAnswer(r, b)
    \/ Release

NextUploads == NextMedia \/ NextPosts

Next == NextCategories \/ NextMedia \/ NextPosts

\* The category resolver against the site's categories.
SpecCategories == Init /\ [][NextCategories]_vars

\* The media uploader.
SpecMedia == Init /\ [][NextMedia]_vars

\* The post creator.
SpecPosts == Init /\ [][NextPosts]_vars

\* The two routes that submit through the redirect handling.
SpecUploads == Init /\ [][NextUploads]_vars

Spec == Init /\ [][Next]_vars

\* The three routes together.  The media and post handlers neither read nor
\* write the site's categories, so they are explored from the empty category
\* list alone.
NextWordPress ==
    \/ NextCategories
    \/ store = <<>> /\ prev = NoPrev /\ NextUploads

\* An awaited fetch of the running handler settles: it resolves with an
\* answer or rejects, and the handler resumes.
Settles ==
    \/ \E r \in Replies, b \in OkBodies : CategoriesSearchAnswer(r, b)
    \/ \E r \in Replies, b \in OkBodies \cup ErrorBodies : CategoriesCreateAnswer(r, b)
    \/ \E r \in Replies : MediaImageAnswer(r)
    \/ \E r \in Replies, b \in AllBodies : MediaUploadAnswer(r, b)
    \/ \E r \in Replies, b \in AllBodies : MediaFollowUpAnswer(r, b)
    \/ \E r \in Replies : MediaPatchAnswer(r)
    \/ \E r \in Replies : LegacyMediaImageAnswer(r)
    \/ \E r \in Replies, b \in AllBodies : LegacyMediaUploadAnswer(r, b)
    \/ \E r \in Replies : LegacyMediaPatchAnswer(r)
    \/ \E r \in Replies, b \in AllBodies : PostsAnswer(r, b)
    \/ \E r \in Replies, b \in AllBodies : PostsFollowUpAnswer(r, b)

\* The three routes, every awaited fetch settling in the end.
SpecWordPress == Init /\ [][NextWordPress]_vars /\ WF_vars(Settles)

---------------------------------------------------------------------------
(* Properties.                                                             *)

\* The handler has returned.
Done == handler # "idle" /\ pc = "done"

\* The index of the first submission (the upload POST, the post POST) in the
\* call log of the redirect-handling handlers.
FirstSubmission == IF handler = "media" THEN 2 ELSE 1

\* A request the handler itself sends with a submission body: the upload or
\* post request and its follow-up, not the image fetch nor the patch.
IsSubmission(c) == c.by = "handler" /\ c.body.kind # "none" /\ "instance" \in DOMAIN c.body

\* The indexes of the handler's submissions.
Submissions == {i \in 1..Len(calls) : IsSubmission(calls[i])}

\* Two submission bodies that are distinct objects of equal content.
RebuiltFrom(b2, b1) ==
    /\ b2.instance # b1.instance
    /\ [b2 EXCEPT !.instance = 0] = [b1 EXCEPT !.instance = 0]

\* The first submission has been answered.
FirstAnswered ==
    /\ handler \in {"media", "posts"}
    /\ Len(calls) >= FirstSubmission
    /\ calls[FirstSubmission].resp.kind # "pending"

\* C1: in the redirect-handling media and post handlers, a first answer of
\* 301, 302, 307 or 308 with a Location is followed by exactly one request of
\* the handler, a POST to that Location with a rebuilt body of equal content
\* and the Authorization header of the first request; after any other first
\* answer the handler sends no follow-up.
C1_OneFollowUpToLocation ==
    FirstAnswered =>
        LET k == FirstSubmission
            first == calls[k]
        IN  IF first.resp.kind = "http" /\ first.resp.status \in {301, 302, 307, 308}
                  /\ first.resp.location # "none"
            THEN /\ Submissions = {k, k + 1}
                 /\ calls[k + 1].url = <<first.resp.location>>
                 /\ calls[k + 1].method = "POST" /\ first.method = "POST"
                 /\ calls[k + 1].auth = first.auth
                 /\ first.auth = getWpAuthHeader(req.username, req.appPassword)
                 /\ RebuiltFrom(calls[k + 1].body, first.body)
            ELSE Submissions = {k}

\* A media upload answered 308 with a Location whose follow-up was sent and
\* answered.
C1_Witness ==
    /\ handler = "media" /\ pc = "done"
    /\ Len(calls) >= 3
    /\ calls[2].resp.status = 308 /\ calls[2].resp.location # "none"
    /\ calls[3].by = "handler" /\ calls[3].resp.kind = "http"

\* The requests sent down the upload or post chain: the handler's
\* submissions and the requests node-fetch sends on its own.
ChainRequests == {i \in 1..Len(calls) : IsSubmission(calls[i]) \/ calls[i].by = "node-fetch"}

\* C2: after the single follow-up no further redirect is followed, by the
\* handler or by node-fetch: at most two requests go down the chain.
C2_AtMostTwoRequests ==
    handler \in {"media", "posts"} => Cardinality(ChainRequests) <= 2

\* The case-insensitive matches of name in a search answer, by index.
Matches(list, name) ==
    {i \in 1..Len(list) : toLowerCase(list[i].name) = toLowerCase(name)}

\* The search call was answered 2xx with a list the handler parsed.
SearchSucceeded ==
    /\ handler = "categories" /\ Len(calls) >= 1
    /\ calls[1].resp.kind = "http" /\ calls[1].resp.body = "json"

\* C3: when the successful search answer holds an entry whose name equals
\* categoryName case-insensitively, the handler answers with the id and name
\* of the first such entry and sends no create call.
C3_ExistingCategoryNoCreate ==
    SearchSucceeded /\ IsString(req.categoryName)
            /\ Matches(calls[1].resp.data, req.categoryName.v) # {} =>
        LET list == calls[1].resp.data
            hits == Matches(list, req.categoryName.v)
            i == CHOOSE x \in hits : \A y \in hits : x <= y
        IN  /\ Len(calls) = 1 /\ calls[1].method = "GET"
            /\ pc = "done"
            /\ responses = <<JsonResponse([id |-> list[i].id, name |-> list[i].name])>>

\* A request for "a" answered from a list whose first match is "A", behind a
\* partial match.
C3_Witness ==
    /\ SearchSucceeded /\ pc = "done"
    /\ req.categoryName = Str(<<"A">>)
    /\ Len(calls[1].resp.data) = 2
    /\ calls[1].resp.data[1].name = <<"a", "b">>
    /\ calls[1].resp.data[2].name = <<"a">>
    /\ responses[1].status = 200

\* C4: against a site whose search answers and whose create stores, a
\* resolution that follows a completed resolution of the same name answers
\* the same id and sends no create call.
C4_ResolveIdempotent ==
    [][(/\ handler = "categories" /\ pc # "done" /\ pc' = "done"
        /\ prev.id # 0 /\ prev.searched /\ prev.name = req.categoryName
        /\ calls'[1].resp.kind = "http" /\ calls'[1].resp.body = "json")
       => /\ Len(calls') = 1
          /\ responses'[1].status = 200
          /\ responses'[1].data.id = prev.id
          /\ store' = store]_vars

\* A resolution that created its category, resolved again with the same id.
C4_Witness ==
    /\ Done /\ handler = "categories"
    /\ prev.repeat /\ prev.searched /\ ~prev.created
    /\ Len(store) = 1 /\ store[1] = req.categoryName.v
    /\ responses[1].status = 200 /\ responses[1].data.id = 1

\* C5: once the upload has succeeded, the handler answers with the id and url
\* of the creation response whatever becomes of the metadata patch; stated
\* for both media handlers of the repository.
C5_PatchNeverAltersResult ==
    handler \in {"media", "legacyMedia"} /\ pc = "done" /\ mediaItem # Undefined =>
        responses = <<JsonResponse([id |-> mediaItem.id, url |-> mediaItem.source_url])>>

\* The same, of the redirect-handling handler alone, whose patch call is
\* wrapped in a try.
PatchSwallowedInRedirectHandler ==
    handler = "media" /\ pc = "done" /\ mediaItem # Undefined =>
        responses = <<JsonResponse([id |-> mediaItem.id, url |-> mediaItem.source_url])>>

\* The final answer of the create, upload or post call of a handler that
\* has returned: the last call of the log, unless that is the patch.
FinalUpstream ==
    IF handler \in {"media", "legacyMedia"} /\ mediaItem # Undefined /\ Len(calls) >= 3
          /\ ~IsSubmission(Last(calls)) /\ Last(calls).by = "handler"
    THEN calls[Len(calls) - 1].resp
    ELSE Last(calls).resp

\* The handler returned after its create, upload or post call was answered
\* with a status outside 2xx.
UpstreamRefused ==
    /\ Done /\ handler \in {"categories", "media", "posts"}
    /\ Len(calls) >= (IF handler = "posts" THEN 1 ELSE 2)
    /\ FinalUpstream.kind = "http"
    /\ FinalUpstream.status < 200 \/ FinalUpstream.status >= 300

\* C6: a create, upload or post call answered outside 2xx is relayed with
\* exactly that status, with the body's message when the body is JSON with
\* one, and with a fallback naming the status when the body is not JSON.
C6_UpstreamStatusRelayed ==
    UpstreamRefused =>
        /\ Len(responses) = 1
        /\ responses[1].status = FinalUpstream.status
        /\ FinalUpstream.body = "json_message" => responses[1].msg = UpstreamMessage
        /\ FinalUpstream.body = "not_json" =>
               Includes(responses[1].msg, <<ToString(FinalUpstream.status)>>)

\* The search call failed: it rejected, or was answered outside 2xx.
SearchFailed ==
    /\ handler = "categories" /\ Len(calls) >= 1
    /\ \/ calls[1].resp.kind = "network_error"
       \/ /\ calls[1].resp.kind = "http"
          /\ calls[1].resp.status < 200 \/ calls[1].resp.status >= 300

\* What the handler answers after a create call answered c, for a category
\* stored at position id.
CreateOutcome(c, id) ==
    IF c.kind = "network_error" THEN ErrorResponse(500, FetchError)
    ELSE IF c.body = "not_json" THEN ErrorResponse(500, SyntaxError)
    ELSE IF c.status >= 200 /\ c.status < 300
    THEN JsonResponse([id |-> id, name |-> req.categoryName.v])
    ELSE ErrorResponse(c.status, IF c.body = "json_message" THEN UpstreamMessage
                                 ELSE <<"Failed to create category">>)

\* The create call was sent after the search, and the handler's answer, once
\* given, is that of the create call alone.
CreateDecides ==
    /\ Len(calls) = 2
    /\ calls[2].by = "handler" /\ calls[2].method = "POST"
    /\ calls[2].body = [kind |-> "json", name |-> req.categoryName]
    /\ IF calls[2].resp.kind = "pending"
       THEN pc = "create" /\ responses = <<>>
       ELSE pc = "done" /\ responses = <<CreateOutcome(calls[2].resp, Len(store))>>

\* C7 as claimed: whenever the search call fails, by a status outside 2xx or
\* at network level, the create call is sent and alone decides the outcome.
C7_SearchFailureNonFatal ==
    SearchFailed => CreateDecides

\* C7 as the code has it: a search answered outside 2xx is taken as "not
\* found", the create call is sent and alone decides the outcome; a search
\* that fails at network level is answered 500 with no create call.
C7_SearchStatusNonFatal ==
    SearchFailed =>
        IF calls[1].resp.kind = "http"
        THEN CreateDecides
        ELSE /\ Len(calls) = 1 /\ pc = "done"
             /\ responses = <<ErrorResponse(500, FetchError)>>

\* A search answered 404 whose create call was answered 201.
C7_Witness ==
    /\ Done /\ SearchFailed
    /\ calls[1].resp.status = 404
    /\ Len(calls) = 2 /\ calls[2].resp.status = 201 /\ calls[2].resp.body = "json"
    /\ responses[1].status = 200

\* A media handler is handling, or has handled, a request.
InMedia == handler \in {"media", "legacyMedia"}

\* The outbound calls are none and the one answer given has this status.
RejectedBeforeAnyCall(status) ==
    /\ pc = "done" /\ calls = <<>>
    /\ Len(responses) = 1 /\ responses[1].status = status
    /\ responses[1].kind = "error"

\* C8: an imageUrl string that starts with neither http:// nor https:// is
\* answered 400 with a message holding the URL, and no outbound call is made.
C8_BadImageUrlRejected ==
    InMedia /\ IsString(req.imageUrl)
            /\ (req.imageUrl.v = <<>> \/ req.imageUrl.v[1] \notin {"http://", "https://"}) =>
        /\ RejectedBeforeAnyCall(400)
        /\ Includes(responses[1].msg, req.imageUrl.v)

\* "ftp://x/y.jpg" with every credential present, rejected.
C8_Witness ==
    /\ handler = "media" /\ pc = "done"
    /\ req.imageUrl = Str(<<"ftp://", "x/y.jpg">>)
    /\ Truthy(req.siteUrl) /\ Truthy(req.username) /\ Truthy(req.appPassword)
    /\ responses = <<ErrorResponse(400, <<"Invalid image URL format: ", "ftp://", "x/y.jpg">>)>>

\* The fetch of the source image failed: it rejected, or was answered outside 2xx.
ImageFetchFailed ==
    /\ InMedia /\ Len(calls) >= 1
    /\ \/ calls[1].resp.kind = "network_error"
       \/ /\ calls[1].resp.kind = "http"
          /\ calls[1].resp.status < 200 \/ calls[1].resp.status >= 300

\* C9 as claimed: any failure of the image fetch ends the operation with a
\* 400-class answer, and neither upload nor patch is sent.
C9_ImageFailureIs400 ==
    ImageFetchFailed =>
        /\ pc = "done" /\ Len(calls) = 1
        /\ Len(responses) = 1
        /\ responses[1].status >= 400 /\ responses[1].status < 500

\* C9 as the code has it: an image fetch answered outside 2xx ends the
\* operation with 400, one that fails at network level with 500; in both
\* cases neither upload nor patch is sent.
C9_ImageFailureFatal ==
    ImageFetchFailed =>
        /\ pc = "done" /\ Len(calls) = 1
        /\ Len(responses) = 1 /\ responses[1].kind = "error"
        /\ responses[1].status = (IF calls[1].resp.kind = "http" THEN 400 ELSE 500)

\* An image fetch answered 404 by the redirect-handling handler.
C9_Witness ==
    /\ handler = "media" /\ pc = "done"
    /\ Len(calls) = 1 /\ calls[1].resp.status = 404
    /\ responses = <<ErrorResponse(400, <<"Failed to fetch image from URL: ", "404">>)>>

\* JavaScript's undefined or "": a field that is missing or empty.
MissingOrEmpty(x) == x = Undefined \/ x = Str(<<>>)

\* C10: a post request whose title or content is empty or missing is answered
\* 400 whatever the other fields hold, and no upstream call is made.
C10_EmptyTitleOrContentRejected ==
    handler = "posts" /\ (MissingOrEmpty(req.title) \/ MissingOrEmpty(req.content)) =>
        RejectedBeforeAnyCall(400)

\* A required field of the category request is missing.
CategoryFieldMissing ==
    \/ req.siteUrl = Undefined \/ req.username = Undefined
    \/ req.appPassword = Undefined \/ req.categoryName = Undefined

\* C11: a category request that lacks siteUrl, username, appPassword or
\* categoryName is answered 400, and neither the search GET nor the create
\* POST is sent.
C11_MissingCategoryFieldRejected ==
    handler = "categories" /\ CategoryFieldMissing => RejectedBeforeAnyCall(400)

\* The part of C11 the validation does enforce: a request that lacks one of
\* the three credentials is answered 400 before any call.
MissingCredentialRejected ==
    handler = "categories"
        /\ (req.siteUrl = Undefined \/ req.username = Undefined
                \/ req.appPassword = Undefined) =>
        RejectedBeforeAnyCall(400)

\* A request with every credential and no categoryName that went upstream:
\* the search asked for "undefined" and the create carried no name.
MissingNameWentUpstream ==
    /\ handler = "categories" /\ req.categoryName = Undefined
    /\ Len(calls) = 2
    /\ calls[1].method = "GET" /\ Includes(calls[1].url, <<"undefined">>)
    /\ calls[2].method = "POST" /\ calls[2].body.name = Undefined

\* The indexes of the calls that carry a post payload.
PostPayloads ==
    {i \in 1..Len(calls) : handler = "posts" /\ calls[i].body.kind = "json"}

\* C12: every post payload sent upstream, in the first request and in the
\* follow-up alike, has status "draft", holds featured_media exactly when
\* featuredImageId is truthy and categories = [categoryId] exactly when
\* categoryId is truthy, and holds no null; the handler's own requests all
\* carry such a payload.
C12_DraftPayloadOmitsAbsentFields ==
    /\ \A i \in PostPayloads :
          LET data == calls[i].body.data
          IN  /\ data.status = Str(<<"draft">>)
              /\ data.title = req.title /\ data.content = req.content
              /\ ("featured_media" \in DOMAIN data) = Truthy(req.featuredImageId)
              /\ "featured_media" \in DOMAIN data =>
                    data.featured_media = req.featuredImageId
              /\ ("categories" \in DOMAIN data) = Truthy(req.categoryId)
              /\ "categories" \in DOMAIN data =>
                    data.categories = Array(<<req.categoryId>>)
              /\ \A k \in DOMAIN data : data[k] \notin {Null, Undefined}
    /\ \A i \in 1..Len(calls) :
          handler = "posts" /\ calls[i].by = "handler" => i \in PostPayloads

\* A post with a featured image and a falsy category id, redirected once:
\* both payloads hold featured_media and no categories.
C12_Witness ==
    /\ handler = "posts" /\ pc = "done"
    /\ req.featuredImageId = Number(5) /\ req.categoryId = Number(0)
    /\ Len(calls) = 2 /\ calls[2].by = "handler"
    /\ PostPayloads = {1, 2}
    /\ DOMAIN calls[2].body.data = {"title", "content", "status", "featured_media"}
    /\ responses[1].status = 200

\* A post whose featuredImageId is null: the payload holds no featured_media.
NullIdOmitted ==
    /\ handler = "posts" /\ req.featuredImageId = Null
    /\ Len(calls) >= 1
    /\ DOMAIN calls[1].body.data = {"title", "content", "status", "categories"}

\* A handler is running and has not returned.
Handling == handler # "idle" /\ pc # "done"

\* At most one response is sent; a handler that has returned has sent one
\* and has no call in flight; a running handler has sent none.
OneResponse ==
    /\ Len(responses) <= 1
    /\ Done => /\ Len(responses) = 1
               /\ \A i \in 1..Len(calls) : calls[i].resp.kind # "pending"
    /\ Handling => responses = <<>>

\* Once the response is sent, the request only ends: no call is issued and
\* no response is added.
NothingAfterResponse ==
    responses # <<>> => handler' = "idle" /\ calls' = <<>> /\ responses' = <<>>

\* C13: every request to the categories, media and posts routes gets exactly
\* one response on every path: never a second one, no upstream call after
\* it, and, every awaited fetch settling, the handler returns having
\* sent it.
C13_ExactlyOneResponse ==
    /\ []OneResponse
    /\ [][NothingAfterResponse]_vars
    /\ (Handling ~> Done)

\* An upload whose metadata patch failed at network level: three calls, the
\* last one rejected, and the one response of the request.
C13_Witness ==
    /\ handler = "media" /\ pc = "done"
    /\ Len(calls) = 3 /\ calls[3].resp.kind = "network_error"
    /\ Len(responses) = 1 /\ responses[1].status = 200

=============================================================================
